---------------------------- MODULE Spec2Model ----------------------------
(***************************************************************************)
(* Ant Colony Optimization for the symmetric TSP (blablast/aco).           *)
(*                                                                         *)
(* Objects of the program are records holding the object's fields:         *)
(* Problem, Pheromone, Ant, Colony, Optimization.  Methods are operators   *)
(* from the object (and arguments) to the object after the call; actions   *)
(* wire them into the control flow of Optimization.optimize.               *)
(*                                                                         *)
(* Numbers.  A float is modelled as an exact extended rational [n, d] in   *)
(* lowest terms: d > 0 is the rational n/d, and d = 0 holds the IEEE       *)
(* specials the code produces: <1,0> = inf (float('inf'), x / 0.0 on a     *)
(* numpy scalar), <-1,0> = -inf, <0,0> = nan.  Rounding and overflow of    *)
(* finite values are not modelled.                                         *)
(***************************************************************************)
EXTENDS Integers, Sequences, FiniteSets, TLC

VARIABLES
    problem,      \* the Problem instance (Problems/Problem.py), NoneVal before construction
    pheromones,   \* the Pheromone object: trails, evaporation_rate, pheromone_deposit
    ants,         \* Colony.ants: sequence of Ant objects
    colony,       \* the Colony's own fields (best_*, current_iteration, iteration_history)
    opt,          \* the Optimization driver's fields
    pc,           \* position of the running program
    last,         \* observation: the most recent call (operation, arguments, state before it)
    raised,       \* the exception that ended the program, or "none"
    calls,        \* number of API calls made so far by the test harness
    returned,     \* what optimize returned to its caller (Pending until it returns)
    callbacks     \* the info dicts the progress callback has been invoked with

vars == <<problem, pheromones, ants, colony, opt, pc, last, raised, calls, returned, callbacks>>

NoneVal == [none |-> TRUE]

-----------------------------------------------------------------------------
(* Extended rational arithmetic (IEEE-754 specials kept, rounding dropped) *)

Abs(x) == IF x < 0 THEN -x ELSE x
Sign(x) == IF x < 0 THEN -1 ELSE IF x > 0 THEN 1 ELSE 0

RECURSIVE GCD(_, _)
GCD(a, b) == IF b = 0 THEN a ELSE GCD(b, a % b)

Norm(n, d) ==
    IF d = 0 THEN [n |-> Sign(n), d |-> 0]
    ELSE LET g == GCD(Abs(n), d) IN [n |-> n \div g, d |-> d \div g]

Rat(n, d) == Norm(n, d)
Zero == [n |-> 0, d |-> 1]
One == [n |-> 1, d |-> 1]
Inf == [n |-> 1, d |-> 0]
NaN == [n |-> 0, d |-> 0]

IsNaN(a) == a.d = 0 /\ a.n = 0
IsFinite(a) == a.d > 0

\* a + b
add(a, b) ==
    IF IsNaN(a) \/ IsNaN(b) THEN NaN
    ELSE IF a.d = 0 /\ b.d = 0 THEN (IF a.n = b.n THEN a ELSE NaN)
    ELSE IF a.d = 0 THEN a
    ELSE IF b.d = 0 THEN b
    ELSE LET g == GCD(a.d, b.d)
         IN Norm(a.n * (b.d \div g) + b.n * (a.d \div g), (a.d \div g) * b.d)

neg(a) == [n |-> -a.n, d |-> a.d]

\* a * b  (inf * 0 = nan)
mul(a, b) ==
    IF a.d = 0 \/ b.d = 0 THEN Norm(Sign(a.n) * Sign(b.n), 0)
    ELSE LET g1 == GCD(Abs(a.n), b.d)
             g2 == GCD(Abs(b.n), a.d)
         IN Norm((a.n \div g1) * (b.n \div g2), (a.d \div g2) * (b.d \div g1))

\* 1 / a on a numpy scalar: 1/0 = inf, 1/inf = 0
inv(a) ==
    IF a.d > 0 /\ a.n = 0 THEN Inf
    ELSE [n |-> Sign(a.n) * a.d, d |-> Abs(a.n)]

\* a / b on numpy scalars (no exception: a warning and inf or nan)
div(a, b) == mul(a, inv(b))

\* a < b ; every comparison with nan is false
lt(a, b) ==
    IF IsNaN(a) \/ IsNaN(b) THEN FALSE
    ELSE IF a.d = 0 /\ b.d = 0 THEN a.n < b.n
    ELSE IF a.d = 0 THEN a.n < 0
    ELSE IF b.d = 0 THEN b.n > 0
    ELSE LET g == GCD(a.d, b.d) IN a.n * (b.d \div g) < b.n * (a.d \div g)

\* a == b ; nan is not equal to itself
eq(a, b) == ~IsNaN(a) /\ ~IsNaN(b) /\ a = b

le(a, b) == lt(a, b) \/ eq(a, b)

\* a ** k for a natural exponent k ; x ** 0 = 1 for every x, nan included
RECURSIVE pow(_, _)
pow(a, k) == IF k = 0 THEN One ELSE mul(a, pow(a, k - 1))

\* np.clip(x, 0.0, 1.0)
clip01(x) == IF lt(x, Zero) THEN Zero ELSE IF lt(One, x) THEN One ELSE x

-----------------------------------------------------------------------------
(* Pheromone  (AntsColony/Pheromone.py)                                    *)

Nodes(N) == 0 .. (N - 1)

\* Pheromone.__init__
InitialTrail == Rat(1, 10)

Pheromone(num_nodes, evaporation_rate, pheromone_deposit) ==
    [ trails |-> [i \in Nodes(num_nodes) |-> [j \in Nodes(num_nodes) |-> InitialTrail]],
      evaporation_rate |-> clip01(evaporation_rate),
      pheromone_deposit |-> pheromone_deposit ]

\* the factor evaporate multiplies every trail by
EvaporationFactor(rate) == add(One, neg(rate))

\* Pheromone.evaporate(evaporation_rate = None) : the object after the call
evaporate(self, evaporation_rate) ==
    LET rate == IF evaporation_rate # NoneVal THEN clip01(evaporation_rate)
                ELSE self.evaporation_rate
    IN [ self EXCEPT
           !.evaporation_rate = rate,
           !.trails = [i \in DOMAIN self.trails |->
                         [j \in DOMAIN self.trails[i] |->
                            mul(self.trails[i][j], EvaporationFactor(rate))]] ]

\* trails[i, j] += amount ; trails[j, i] += amount   (two statements, in order)
\* variant of AddEdge that writes the forward direction only
AddEdgeForward(trails, i, j, amount) ==
    [trails EXCEPT ![i][j] = add(@, amount)]

AddEdge(trails, i, j, amount) ==
    LET t1 == [trails EXCEPT ![i][j] = add(@, amount)]
    IN [t1 EXCEPT ![j][i] = add(@, amount)]

\* for i, j in zip(route[:-1], route[1:]): add the edge ; k is the edge index
RECURSIVE DepositEdges(_, _, _, _)
DepositEdges(trails, route, k, amount) ==
    IF k >= Len(route) THEN trails
    ELSE DepositEdges(AddEdge(trails, route[k], route[k + 1], amount), route, k + 1, amount)

\* Python truthiness of an optional number: None and 0 are falsy (nan is truthy)
Truthy(x) == x # NoneVal /\ x # Zero

\* (pheromone_deposit or self.pheromone_deposit)
DepositBase(self, pheromone_deposit) ==
    IF Truthy(pheromone_deposit) THEN pheromone_deposit ELSE self.pheromone_deposit

\* Pheromone.deposit(route, length, pheromone_deposit = None).
\* numpy_length says whether length is a numpy float64 (Ant.total_distance is
\* one) or a built-in float: a built-in float division by zero raises
\* ZeroDivisionError, a numpy one yields inf or nan.
\* Result: the object after the call and the exception raised, if any.
deposit(self, route, length, pheromone_deposit, numpy_length) ==
    IF length = Zero /\ ~numpy_length
    THEN [self |-> self, raised |-> "ZeroDivisionError"]
    ELSE LET deposit_amount == div(DepositBase(self, pheromone_deposit), length)
             t1 == DepositEdges(self.trails, route, 1, deposit_amount)
         IN IF Len(route) = 0
            THEN [self |-> self, raised |-> "IndexError"]
            ELSE [self |-> [self EXCEPT !.trails =
                              IF route[1] # route[Len(route)]
                              THEN AddEdge(t1, route[Len(route)], route[1], deposit_amount)
                              ELSE t1],
                  raised |-> "none"]


-----------------------------------------------------------------------------
(* Problem  (Problems/Problem.py)                                          *)

\* The instance files of Problems/ (NODE_COORD_SECTION read by load_nodes):
\* node coordinates, chosen so that every pairwise distance is an integer.
Instances ==
    [ one      |-> << <<0, 0>> >>,
      twins    |-> << <<1, 1>>, <<1, 1>> >>,
      pair     |-> << <<0, 0>>, <<2, 0>> >>,
      triangle |-> << <<0, 0>>, <<3, 0>>, <<0, 4>> >>,
      corner   |-> << <<0, 0>>, <<0, 0>>, <<3, 0>>, <<0, 4>> >> ]

\* np.sqrt on a perfect square
RECURSIVE SqrtFrom(_, _)
SqrtFrom(x, r) == IF r * r >= x THEN r ELSE SqrtFrom(x, r + 1)
Sqrt(x) == SqrtFrom(x, 0)

\* Problem.compute_distance_matrix : Euclidean distances, nodes indexed from 0
compute_distance_matrix(nodes) ==
    [i \in Nodes(Len(nodes)) |-> [j \in Nodes(Len(nodes)) |->
        LET dx == nodes[i + 1][1] - nodes[j + 1][1]
            dy == nodes[i + 1][2] - nodes[j + 1][2]
        IN Rat(Sqrt(dx * dx + dy * dy), 1)]]

\* Problem.__init__ : no argument is validated
Problem(problem_name, num_ants, alpha, beta, evaporation_rate, pheromone_rate) ==
    [ name |-> problem_name,
      nodes |-> Instances[problem_name],
      distances |-> compute_distance_matrix(Instances[problem_name]),
      num_ants |-> num_ants,
      alpha |-> alpha,
      beta |-> beta,
      evaporation_rate |-> evaporation_rate,
      pheromone_rate |-> pheromone_rate ]

\* np.sum(distances[route[:-1], route[1:]]) from edge k on
RECURSIVE SumEdges(_, _, _)
SumEdges(distances, route, k) ==
    IF k >= Len(route) THEN Zero
    ELSE add(distances[route[k]][route[k + 1]], SumEdges(distances, route, k + 1))

\* Problem.get_length
get_length(distances, route) ==
    IF Len(route) = 0 THEN Zero
    ELSE add(SumEdges(distances, route, 1), distances[route[Len(route)]][route[1]])

-----------------------------------------------------------------------------
(* Ant  (AntsColony/Ant.py)                                                *)

\* Ant.__init__
Ant(start_node, num_nodes, alpha, beta) ==
    [ start_node |-> start_node,
      route |-> <<start_node>>,
      visited |-> {start_node},
      total_distance |-> Zero,
      num_nodes |-> num_nodes,
      alpha |-> alpha,
      beta |-> beta ]

\* Ant.reset
reset(self) ==
    [self EXCEPT !.route = <<self.start_node>>,
                 !.visited = {self.start_node},
                 !.total_distance = Zero]

\* [node for node in range(num_nodes) if node not in visited] : ascending order
available_nodes(self) ==
    SelectSeq([k \in 1 .. self.num_nodes |-> k - 1], LAMBDA node : node \notin self.visited)

\* np.where(d > 0, (1.0 / d) ** beta, 0)
heuristic_value(d, beta) == IF lt(Zero, d) THEN pow(inv(d), beta) ELSE Zero

\* pheromone_levels ** alpha * heuristic_values, one entry per available node
probabilities(self, distances, trails) ==
    LET current_node == self.route[Len(self.route)]
        avail == available_nodes(self)
    IN [k \in 1 .. Len(avail) |->
          mul(pow(trails[current_node][avail[k]], self.alpha),
              heuristic_value(distances[current_node][avail[k]], self.beta))]

\* ndarray.sum()
RECURSIVE SumSeq(_)
SumSeq(s) == IF Len(s) = 0 THEN Zero ELSE add(s[1], SumSeq(Tail(s)))

\* np.argmin : scan from the left, keep the first smallest (1-based position)
\* variant of argmin that returns the last position of the minimum
argmin_last(s) ==
    CHOOSE k \in 1 .. Len(s) :
        /\ \A m \in 1 .. Len(s) : le(s[k], s[m])
        /\ \A m \in (k + 1) .. Len(s) : lt(s[k], s[m])

RECURSIVE ArgMinScan(_, _, _)
ArgMinScan(s, k, best) ==
    IF k > Len(s) THEN best
    ELSE ArgMinScan(s, k + 1, IF lt(s[k], s[best]) THEN k ELSE best)
argmin(s) == ArgMinScan(s, 2, 1)

\* np.random.choice(a, p = p) rejects p that holds nan, a negative entry or
\* does not sum to 1 (ValueError); otherwise it may return any a[k] with p[k] > 0
ChoiceRejects(p) ==
    \/ \E k \in DOMAIN p : IsNaN(p[k]) \/ lt(p[k], Zero)
    \/ ~eq(SumSeq(p), One)

\* Ant._choose_next_node : the set of outcomes, each a node returned or a
\* ValueError raised ; fallback tells that the nearest-node branch was taken
choose_next_node(self, distances, trails) ==
    LET current_node == self.route[Len(self.route)]
        avail == available_nodes(self)
        distances_to_nodes == [k \in 1 .. Len(avail) |-> distances[current_node][avail[k]]]
        prob == probabilities(self, distances, trails)
        total == SumSeq(prob)
        p == [k \in DOMAIN prob |-> div(prob[k], total)]
    IN IF eq(total, Zero)
       THEN {[node |-> avail[argmin(distances_to_nodes)], raised |-> "none", fallback |-> TRUE]}
       ELSE IF ChoiceRejects(p)
       THEN {[node |-> -1, raised |-> "ValueError", fallback |-> FALSE]}
       ELSE {[node |-> avail[k], raised |-> "none", fallback |-> FALSE] :
                k \in {m \in DOMAIN p : lt(Zero, p[m])}}

\* the body of find_route's while loop after the choice (lines 40-43)
Visit(self, next_node, distances) ==
    LET current_node == self.route[Len(self.route)]
    IN [self EXCEPT !.route = Append(@, next_node),
                    !.visited = @ \cup {next_node},
                    !.total_distance = add(@, distances[current_node][next_node])]

\* variant of ReturnToStart that does not count the way back
ReturnToStartUncounted(self, distances) ==
    [self EXCEPT !.route = Append(@, self.start_node)]

\* find_route lines 46-47 : return to the start node
ReturnToStart(self, distances) ==
    LET r == Append(self.route, self.start_node)
    IN [self EXCEPT !.route = r,
                    !.total_distance = add(@, distances[r[Len(r) - 1]][self.start_node])]

\* find_route from the while loop on: every way the loop can run, each
\* ending in the completed ant or in the ant as the ValueError left it
RECURSIVE FindRouteFrom(_, _, _)
FindRouteFrom(self, distances, trails) ==
    IF Len(self.route) < self.num_nodes
    THEN UNION { IF o.raised = "none"
                 THEN FindRouteFrom(Visit(self, o.node, distances), distances, trails)
                 ELSE {[self |-> self, raised |-> o.raised]} :
                 o \in choose_next_node(self, distances, trails) }
    ELSE {[self |-> ReturnToStart(self, distances), raised |-> "none"]}

\* Ant.find_route : the set of outcomes of one call
find_route(self, distances, trails) == FindRouteFrom(reset(self), distances, trails)

-----------------------------------------------------------------------------
(* Colony  (AntsColony/Colony.py)                                          *)

\* Colony.__init__ : the colony's own fields (time.time() readings, which
\* only feed the *_time_ms fields, are left out)
Colony(num_nodes) ==
    [ num_nodes |-> num_nodes,
      best_route |-> [k \in 1 .. num_nodes |-> k - 1],
      best_length |-> Inf,
      best_iteration |-> 0,
      iteration_history |-> <<>>,
      current_iteration |-> 0 ]

\* the colony's top-ant cutoff, sorted(...)[:5]
TopAnts == 5

\* sorted(self.ants, key = total_distance) : stable insertion of ant index k
\* into the already sorted index list s, behind every ant that is not longer
RECURSIVE InsertSorted(_, _, _)
InsertSorted(population, s, k) ==
    IF Len(s) = 0 THEN <<k>>
    ELSE IF lt(population[k].total_distance, population[Head(s)].total_distance)
         THEN <<k>> \o s
         ELSE <<Head(s)>> \o InsertSorted(population, Tail(s), k)

RECURSIVE SortedPrefix(_, _)
SortedPrefix(population, n) ==
    IF n = 0 THEN <<>> ELSE InsertSorted(population, SortedPrefix(population, n - 1), n)

\* variant of top_ants that keeps the whole sorted population
top_ants_unsliced(population) == SortedPrefix(population, Len(population))

\* sorted(self.ants, key = lambda ant: ant.total_distance)[:5], as ant indices
top_ants(population) ==
    LET s == SortedPrefix(population, Len(population))
    IN SubSeq(s, 1, IF Len(s) < TopAnts THEN Len(s) ELSE TopAnts)

\* variant of UpdateBest that also takes a route that is equally long
UpdateBestOnTie(self, ant, distances) ==
    LET route_length == get_length(distances, ant.route)
    IN IF le(route_length, self.best_length)
       THEN [self EXCEPT !.best_length = route_length,
                         !.best_route = ant.route,
                         !.best_iteration = self.current_iteration]
       ELSE self

\* variant of UpdateBest that records the length and not the route
UpdateBestLengthOnly(self, ant, distances) ==
    LET route_length == get_length(distances, ant.route)
    IN IF lt(route_length, self.best_length)
       THEN [self EXCEPT !.best_length = route_length,
                         !.best_iteration = self.current_iteration]
       ELSE self

\* lines 58-62 of _perform_iteration : keep the ant's route if it is shorter
UpdateBest(self, ant, distances) ==
    LET route_length == get_length(distances, ant.route)
    IN IF lt(route_length, self.best_length)
       THEN [self EXCEPT !.best_length = route_length,
                         !.best_route = ant.route,
                         !.best_iteration = self.current_iteration]
       ELSE self

-----------------------------------------------------------------------------
(* Optimization  (AntsColony/Optimization.py)                              *)

\* Optimization.__init__ : the driver's own fields ; iteration is the loop
\* variable of optimize
Optimization(num_iterations) ==
    [ num_iterations |-> num_iterations,
      best_route |-> NoneVal,
      best_length |-> Inf,
      iteration_history |-> <<>>,
      iteration |-> 0,
      callback |-> FALSE ]

\* optimize lines 30-40 : take over the colony's best, append the record
\* variant of DriverStep that takes the colony's result without comparing
DriverStepUnguarded(self, best_route, best_length) ==
    [self EXCEPT !.best_length = best_length,
                 !.best_route = best_route,
                 !.iteration_history = Append(@, [iteration |-> self.iteration,
                                                   best_route |-> best_route,
                                                   best_length |-> best_length])]

\* variant of DriverStep that appends a record only when the best improved
DriverStepOnImprove(self, best_route, best_length) ==
    IF lt(best_length, self.best_length)
    THEN [self EXCEPT !.best_length = best_length,
                      !.best_route = best_route,
                      !.iteration_history = Append(@, [iteration |-> self.iteration,
                                                        best_route |-> best_route,
                                                        best_length |-> best_length])]
    ELSE self

DriverStep(self, best_route, best_length) ==
    LET better == lt(best_length, self.best_length)
        bl == IF better THEN best_length ELSE self.best_length
        br == IF better THEN best_route ELSE self.best_route
    IN [self EXCEPT !.best_length = bl,
                    !.best_route = br,
                    !.iteration_history = Append(@, [iteration |-> self.iteration,
                                                      best_route |-> br,
                                                      best_length |-> bl])]

\* variant of optimize_result that hands back the running best
optimize_result_best(self) ==
    [best_route |-> self.best_route, best_length |-> self.best_length]

\* what optimize returns: it has no return statement (-> None)
optimize_result(self) == NoneVal

\* the dict handed to the callback (lines 44-49)
CallbackInfo(self) ==
    [ iteration |-> self.iteration,
      best_route |-> self.best_route,
      best_length |-> self.best_length,
      iteration_history |-> self.iteration_history ]

-----------------------------------------------------------------------------
(* The program: Problem(...), Optimization(problem, n), optimize(callback) *)

MaxIterations == 2    \* largest num_iterations tried

Pending == [pending |-> TRUE]
Idle == [op |-> "none"]
At(label) == [at |-> label, k |-> 0, top |-> <<>>]

\* arguments tried for Problem(...)
AntCounts == {-1, 0, 1, 2}
Exponents == {<<1, 2>>}                            \* <<alpha, beta>>
EvaporationRates == {Rat(1, 2), Rat(3, 2)}
PheromoneRates == {Rat(100, 1)}

Init ==
    /\ problem = NoneVal
    /\ pheromones = NoneVal
    /\ ants = <<>>
    /\ colony = NoneVal
    /\ opt = NoneVal
    /\ pc = At("start")
    /\ last = Idle
    /\ raised = "none"
    /\ calls = 0
    /\ returned = Pending
    /\ callbacks = <<>>

\* problem = Problem(problem_name, num_ants, alpha, beta, evaporation_rate, pheromone_rate)
NewProblem ==
    /\ pc.at = "start"
    /\ \E name \in DOMAIN Instances, num_ants \in AntCounts, ab \in Exponents,
          rate \in EvaporationRates, prate \in PheromoneRates :
          problem' = Problem(name, num_ants, ab[1], ab[2], rate, prate)
    /\ pc' = At("problem")
    /\ last' = [op |-> "Problem"]
    /\ UNCHANGED <<pheromones, ants, colony, opt, raised, calls, returned, callbacks>>

\* optimization = Optimization(problem, num_iterations), which builds the
\* Colony, its Pheromone and its ants, each at random.randint(0, num_nodes - 1)
NewOptimization ==
    /\ pc.at = "problem"
    /\ LET num_nodes == Len(problem.nodes)
           population == 1 .. (IF problem.num_ants > 0 THEN problem.num_ants ELSE 0)
       IN /\ \E start \in [population -> Nodes(num_nodes)] :
                ants' = [k \in population |->
                           Ant(start[k], num_nodes, problem.alpha, problem.beta)]
          /\ pheromones' = Pheromone(num_nodes, problem.evaporation_rate, problem.pheromone_rate)
          /\ colony' = Colony(num_nodes)
    /\ \E num_iterations \in 0 .. MaxIterations : opt' = Optimization(num_iterations)
    /\ pc' = At("constructed")
    /\ last' = [op |-> "Optimization"]
    /\ UNCHANGED <<problem, raised, calls, returned, callbacks>>

\* optimization.optimize(callback) is called, with or without a callback
Optimize ==
    /\ pc.at = "constructed"
    /\ \E callback \in BOOLEAN : opt' = [opt EXCEPT !.callback = callback]
    /\ pc' = At("for")
    /\ last' = [op |-> "optimize"]
    /\ UNCHANGED <<problem, pheromones, ants, colony, raised, calls, returned, callbacks>>

\* for iteration in range(1, num_iterations + 1), then Colony.run_iteration
\* and its _prepare_iteration
PrepareIteration ==
    /\ pc.at = "for"
    /\ opt.iteration < opt.num_iterations
    /\ opt' = [opt EXCEPT !.iteration = @ + 1]
    /\ colony' = [colony EXCEPT !.current_iteration = @ + 1]
    /\ pc' = [At("ant") EXCEPT !.k = 1]
    /\ last' = [op |-> "_prepare_iteration"]
    /\ UNCHANGED <<problem, pheromones, ants, raised, calls, returned, callbacks>>

\* the loop is exhausted: optimize falls off its end and returns None
OptimizeReturn ==
    /\ pc.at = "for"
    /\ opt.iteration >= opt.num_iterations
    /\ returned' = optimize_result(opt)
    /\ pc' = At("done")
    /\ last' = [op |-> "return"]
    /\ UNCHANGED <<problem, pheromones, ants, colony, opt, raised, calls, callbacks>>

\* one pass of "for ant in self.ants": ant.find_route(distances, trails),
\* route_length = get_length(ant.route) and the best-route update ; a
\* ValueError of np.random.choice propagates out of run_iteration and optimize
AntTurn ==
    /\ pc.at = "ant"
    /\ pc.k <= Len(ants)
    /\ \E outcome \in find_route(ants[pc.k], problem.distances, pheromones.trails) :
          /\ ants' = [ants EXCEPT ![pc.k] = outcome.self]
          /\ last' = [op |-> "find_route", ant |-> pc.k, before |-> colony,
                      raised |-> outcome.raised]
          /\ IF outcome.raised = "none"
             THEN /\ colony' = UpdateBest(colony, outcome.self, problem.distances)
                  /\ pc' = [pc EXCEPT !.k = @ + 1]
                  /\ UNCHANGED raised
             ELSE /\ raised' = outcome.raised
                  /\ pc' = At("raised")
                  /\ UNCHANGED colony
    /\ UNCHANGED <<problem, pheromones, opt, calls, returned, callbacks>>

\* variant of EvaporateTrails that evaporates before the last ant's turn
EvaporateBeforeLastAnt ==
    /\ pc.at = "ant"
    /\ pc.k >= Len(ants)
    /\ pheromones' = evaporate(pheromones, NoneVal)
    /\ pc' = [at |-> "deposit", k |-> 1, top |-> top_ants(ants)]
    /\ last' = [op |-> "evaporate", before |-> pheromones, rate |-> NoneVal]
    /\ UNCHANGED <<problem, ants, colony, opt, raised, calls, returned, callbacks>>

\* _update_pheromones: self.pheromones.evaporate(), then the top ants are picked
EvaporateTrails ==
    /\ pc.at = "ant"
    /\ pc.k > Len(ants)
    /\ pheromones' = evaporate(pheromones, NoneVal)
    /\ pc' = [at |-> "deposit", k |-> 1, top |-> top_ants(ants)]
    /\ last' = [op |-> "evaporate", before |-> pheromones, rate |-> NoneVal]
    /\ UNCHANGED <<problem, ants, colony, opt, raised, calls, returned, callbacks>>

\* for ant in top_ants: self.pheromones.deposit(ant.route, ant.total_distance)
DepositTrail ==
    /\ pc.at = "deposit"
    /\ pc.k <= Len(pc.top)
    /\ LET ant == ants[pc.top[pc.k]]
           r == deposit(pheromones, ant.route, ant.total_distance, NoneVal, TRUE)
       IN /\ pheromones' = r.self
          /\ last' = [op |-> "deposit", before |-> pheromones, route |-> ant.route,
                      length |-> ant.total_distance, pheromone_deposit |-> NoneVal,
                      raised |-> r.raised, ant |-> pc.top[pc.k]]
    /\ pc' = [pc EXCEPT !.k = @ + 1]
    /\ UNCHANGED <<problem, ants, colony, opt, raised, calls, returned, callbacks>>

\* for ant in self.ants: ant.reset()
ResetAnts ==
    /\ pc.at = "deposit"
    /\ pc.k > Len(pc.top)
    /\ ants' = [k \in DOMAIN ants |-> reset(ants[k])]
    /\ pc' = At("finalize")
    /\ last' = [op |-> "reset"]
    /\ UNCHANGED <<problem, pheromones, colony, opt, raised, calls, returned, callbacks>>

\* _finalize_iteration, and run_iteration returns (best_route, best_length)
FinalizeIteration ==
    /\ pc.at = "finalize"
    /\ colony' = [colony EXCEPT !.iteration_history =
                     Append(@, [iteration |-> colony.current_iteration,
                                best_length |-> colony.best_length])]
    /\ pc' = At("driver")
    /\ last' = [op |-> "_finalize_iteration"]
    /\ UNCHANGED <<problem, pheromones, ants, opt, raised, calls, returned, callbacks>>

\* optimize lines 30-40, on what run_iteration returned
DriverUpdate ==
    /\ pc.at = "driver"
    /\ opt' = DriverStep(opt, colony.best_route, colony.best_length)
    /\ pc' = At(IF opt.callback THEN "callback" ELSE "for")
    /\ last' = [op |-> "driver", before |-> opt]
    /\ UNCHANGED <<problem, pheromones, ants, colony, raised, calls, returned, callbacks>>

\* if callback: callback({...})
InvokeCallback ==
    /\ pc.at = "callback"
    /\ callbacks' = Append(callbacks, CallbackInfo(opt))
    /\ pc' = At("for")
    /\ last' = [op |-> "callback"]
    /\ UNCHANGED <<problem, pheromones, ants, colony, opt, raised, calls, returned>>

Next ==
    \/ NewProblem
    \/ NewOptimization
    \/ Optimize
    \/ PrepareIteration
    \/ OptimizeReturn
    \/ AntTurn
    \/ EvaporateTrails
    \/ DepositTrail
    \/ ResetAnts
    \/ FinalizeIteration
    \/ DriverUpdate
    \/ InvokeCallback

Spec == Init /\ [][Next]_vars

-----------------------------------------------------------------------------
(* The driver against an arbitrary colony: run_iteration is a stub that    *)
(* may return any (best_route, best_length)                                *)

StubRoutes == {<<0, 1, 0>>, <<1, 0, 1>>}
StubLengths == {Inf, Rat(1, 1), Rat(2, 1), Rat(3, 1)}

InitDriver ==
    /\ problem = NoneVal
    /\ pheromones = NoneVal
    /\ ants = <<>>
    /\ colony = Colony(2)
    /\ \E num_iterations \in 0 .. MaxIterations : opt = Optimization(num_iterations)
    /\ pc = At("constructed")
    /\ last = Idle
    /\ raised = "none"
    /\ calls = 0
    /\ returned = Pending
    /\ callbacks = <<>>

\* best_route, best_length = self.colony.run_iteration(), colony stubbed
StubRunIteration ==
    /\ pc.at = "for"
    /\ opt.iteration < opt.num_iterations
    /\ opt' = [opt EXCEPT !.iteration = @ + 1]
    /\ \E r \in StubRoutes, l \in StubLengths :
          colony' = [colony EXCEPT !.best_route = r, !.best_length = l,
                                   !.current_iteration = @ + 1]
    /\ pc' = At("driver")
    /\ last' = [op |-> "run_iteration"]
    /\ UNCHANGED <<problem, pheromones, ants, raised, calls, returned, callbacks>>

NextDriver ==
    \/ Optimize
    \/ StubRunIteration
    \/ DriverUpdate
    \/ InvokeCallback
    \/ OptimizeReturn

SpecDriver == InitDriver /\ [][NextDriver]_vars

-----------------------------------------------------------------------------
(* Pheromone under arbitrary calls of evaporate and deposit                *)

FieldNodes == 3      \* num_nodes of the field under test
MaxCalls == 2        \* calls made on it

RateArgs == {NoneVal, Rat(-1, 2), Rat(1, 2), One, Rat(3, 2)}
RouteArgs == {<<>>, <<0, 1>>, <<0, 1, 2, 0>>, <<2, 0, 0, 2>>}
\* <<length, whether it is a numpy float64>>
LengthArgs == {<<Rat(3, 1), FALSE>>, <<Rat(1, 2), FALSE>>, <<Rat(-2, 1), FALSE>>,
               <<Zero, FALSE>>, <<Zero, TRUE>>}
PositiveLengthArgs == {a \in LengthArgs : lt(Zero, a[1])}
AmountArgs == {NoneVal, Zero, One, Rat(-1, 1)}

InitPheromone ==
    /\ problem = NoneVal
    /\ \E rate \in {Rat(1, 2)}, prate \in PheromoneRates :
          pheromones = Pheromone(FieldNodes, rate, prate)
    /\ ants = <<>>
    /\ colony = NoneVal
    /\ opt = NoneVal
    /\ pc = At("field")
    /\ last = Idle
    /\ raised = "none"
    /\ calls = 0
    /\ returned = Pending
    /\ callbacks = <<>>

\* pheromones.evaporate(rate)
CallEvaporate ==
    /\ pc.at = "field"
    /\ calls < MaxCalls
    /\ \E rate \in RateArgs :
          /\ pheromones' = evaporate(pheromones, rate)
          /\ last' = [op |-> "evaporate", before |-> pheromones, rate |-> rate]
    /\ calls' = calls + 1
    /\ UNCHANGED <<problem, ants, colony, opt, pc, raised, returned, callbacks>>

\* pheromones.deposit(route, length, amount) ; an exception is caught by the caller
CallDeposit(lengths) ==
    /\ pc.at = "field"
    /\ calls < MaxCalls
    /\ \E route \in RouteArgs, length \in lengths, amount \in AmountArgs :
          LET r == deposit(pheromones, route, length[1], amount, length[2])
          IN /\ pheromones' = r.self
             /\ last' = [op |-> "deposit", before |-> pheromones, route |-> route,
                         length |-> length[1], pheromone_deposit |-> amount,
                         raised |-> r.raised, ant |-> 0]
    /\ calls' = calls + 1
    /\ UNCHANGED <<problem, ants, colony, opt, pc, raised, returned, callbacks>>

NextPheromone == CallEvaporate \/ CallDeposit(LengthArgs)

SpecPheromone == InitPheromone /\ [][NextPheromone]_vars

NextPositive == CallEvaporate \/ CallDeposit(PositiveLengthArgs)

SpecPositive == InitPheromone /\ [][NextPositive]_vars

-----------------------------------------------------------------------------
(* One call of Ant.find_route, statement by statement, on arbitrary        *)
(* symmetric distance and pheromone matrices                               *)

AntNodes == 3        \* largest num_nodes of the matrices

DistanceValues == {Zero, One, Rat(2, 1)}
TrailValues == {Zero, InitialTrail}
AntExponents == {<<1, 2>>, <<0, 1>>}

Edges(N) == {e \in Nodes(N) \X Nodes(N) : e[1] < e[2]}

\* the symmetric N x N matrix with diag on the diagonal and f on the edges
Symmetric(N, diag, f) ==
    [i \in Nodes(N) |-> [j \in Nodes(N) |->
        IF i = j THEN diag ELSE IF i < j THEN f[<<i, j>>] ELSE f[<<j, i>>]]]

\* an ant as a finished earlier generation may have left it
Stale(ant) ==
    [ant EXCEPT !.route = <<ant.start_node, ant.start_node>>,
                !.visited = Nodes(ant.num_nodes),
                !.total_distance = One]

InitAnt ==
    /\ \E N \in 1 .. AntNodes :
         /\ \E d \in [Edges(N) -> DistanceValues] :
               problem = [distances |-> Symmetric(N, Zero, d)]
         /\ \E t \in [Edges(N) -> TrailValues] :
               pheromones = [trails |-> Symmetric(N, InitialTrail, t)]
         /\ \E start \in Nodes(N), ab \in AntExponents, stale \in BOOLEAN :
               ants = << IF stale THEN Stale(Ant(start, N, ab[1], ab[2]))
                         ELSE Ant(start, N, ab[1], ab[2]) >>
    /\ colony = NoneVal
    /\ opt = NoneVal
    /\ pc = [at |-> "call", k |-> 1, top |-> <<>>]
    /\ last = Idle
    /\ raised = "none"
    /\ calls = 0
    /\ returned = Pending
    /\ callbacks = <<>>

\* find_route line 35 : self.reset()
FindRouteReset ==
    /\ pc.at = "call"
    /\ ants' = [ants EXCEPT ![pc.k] = reset(@)]
    /\ pc' = [pc EXCEPT !.at = "while"]
    /\ last' = [op |-> "reset", before |-> ants[pc.k]]
    /\ UNCHANGED <<problem, pheromones, colony, opt, raised, calls, returned, callbacks>>

\* one pass of the while loop (lines 38-43)
ChooseNext ==
    /\ pc.at = "while"
    /\ Len(ants[pc.k].route) < ants[pc.k].num_nodes
    /\ \E outcome \in choose_next_node(ants[pc.k], problem.distances, pheromones.trails) :
          /\ last' = [op |-> "_choose_next_node", before |-> ants[pc.k], outcome |-> outcome]
          /\ IF outcome.raised = "none"
             THEN /\ ants' = [ants EXCEPT ![pc.k] = Visit(@, outcome.node, problem.distances)]
                  /\ UNCHANGED <<pc, raised>>
             ELSE /\ raised' = outcome.raised
                  /\ pc' = [pc EXCEPT !.at = "raised"]
                  /\ UNCHANGED ants
    /\ UNCHANGED <<problem, pheromones, colony, opt, calls, returned, callbacks>>

\* the loop is over: lines 46-47, and find_route returns
CloseRoute ==
    /\ pc.at = "while"
    /\ Len(ants[pc.k].route) >= ants[pc.k].num_nodes
    /\ ants' = [ants EXCEPT ![pc.k] = ReturnToStart(@, problem.distances)]
    /\ pc' = [pc EXCEPT !.at = "returned"]
    /\ last' = [op |-> "find_route", ant |-> pc.k, before |-> ants[pc.k], raised |-> "none"]
    /\ UNCHANGED <<problem, pheromones, colony, opt, raised, calls, returned, callbacks>>

NextAnt == FindRouteReset \/ ChooseNext \/ CloseRoute

SpecAnt == InitAnt /\ [][NextAnt]_vars

-----------------------------------------------------------------------------
(* One generation of a larger colony: run_iteration on the instance corner, *)
(* every ant starting at node 0, from _prepare_iteration to its return      *)

MaxPopulation == 6   \* largest num_ants of the colony under test

InitElite ==
    /\ \E num_ants \in 1 .. MaxPopulation :
          /\ problem = Problem("corner", num_ants, 1, 2, Rat(1, 2), Rat(100, 1))
          /\ ants = [k \in 1 .. num_ants |-> Ant(0, 4, 1, 2)]
    /\ pheromones = Pheromone(4, Rat(1, 2), Rat(100, 1))
    /\ colony = [Colony(4) EXCEPT !.current_iteration = 1]
    /\ opt = [Optimization(1) EXCEPT !.iteration = 1]
    /\ pc = [At("ant") EXCEPT !.k = 1]
    /\ last = [op |-> "_prepare_iteration"]
    /\ raised = "none"
    /\ calls = 0
    /\ returned = Pending
    /\ callbacks = <<>>

NextElite ==
    \/ AntTurn
    \/ EvaporateTrails
    \/ DepositTrail
    \/ ResetAnts
    \/ FinalizeIteration

SpecElite == InitElite /\ [][NextElite]_vars

-----------------------------------------------------------------------------
(* Properties                                                              *)

\* route is a closed tour of N nodes from start: N + 1 entries, the first N
\* a permutation of 0..N-1, the last equal to the first, which is start
ValidTour(route, N, start) ==
    /\ Len(route) = N + 1
    /\ {route[k] : k \in 1 .. N} = Nodes(N)
    /\ route[N + 1] = route[1]
    /\ route[1] = start

\* C1: every call of Ant.find_route leaves the ant with a route of N + 1
\* entries whose first N entries are a permutation of 0..N-1 and whose last
\* entry is the ant's start node, whatever the matrices and the ant's state
\* before the call.
C1_RouteComplete ==
    last.op = "find_route" =>
        ValidTour(ants[last.ant].route, ants[last.ant].num_nodes, ants[last.ant].start_node)

\* C2: after any sequence of evaporate and deposit calls with positive
\* lengths the field is symmetric: trails[i][j] == trails[j][i].
C2_Symmetric ==
    pheromones # NoneVal =>
        \A i \in DOMAIN pheromones.trails : \A j \in DOMAIN pheromones.trails :
            eq(pheromones.trails[i][j], pheromones.trails[j][i])

\* a deposit on the open route 0 -> 1 has changed the field after an earlier call
C2_Witness ==
    /\ calls = 2
    /\ last.op = "deposit"
    /\ last.route = <<0, 1>>
    /\ last.raised = "none"
    /\ pheromones.trails[0][1] # last.before.trails[0][1]
    /\ pheromones.trails[0][1] # pheromones.trails[0][2]

\* C3: the driver's running best_length never increases from one generation
\* to the next, and neither does the best_length of consecutive records of
\* its iteration_history (each record holds the running best of its generation).
C3_BestNonIncreasing ==
    opt # NoneVal =>
        LET h == opt.iteration_history
        IN /\ \A g \in 1 .. (Len(h) - 1) : le(h[g + 1].best_length, h[g].best_length)
           /\ Len(h) > 0 => h[Len(h)].best_length = opt.best_length
           /\ last.op = "driver" => le(opt.best_length, last.before.best_length)

\* a generation whose result is worse than the running best has been processed
C3_Witness ==
    /\ opt # NoneVal
    /\ last.op = "driver"
    /\ Len(opt.iteration_history) >= 2
    /\ lt(opt.best_length, colony.best_length)
    /\ lt(opt.iteration_history[2].best_length, Inf)

\* the rate a call of evaporate works with: the clamped argument
Clamp(r) == IF lt(r, Zero) THEN Zero ELSE IF lt(One, r) THEN One ELSE r

\* C4: evaporate(r) sets every entry to its previous value times
\* (1 - clamp(r, 0, 1)), and with a rate of 1.0 (or above) every entry is zero
\* afterwards.  (When evaporate is called without a rate, r is the stored rate.)
C4_EvaporationLaw ==
    last.op = "evaporate" =>
        LET r == IF last.rate = NoneVal THEN last.before.evaporation_rate
                 ELSE Clamp(last.rate)
        IN \A i \in DOMAIN pheromones.trails : \A j \in DOMAIN pheromones.trails :
              /\ pheromones.trails[i][j] = mul(last.before.trails[i][j], add(One, neg(r)))
              /\ r = One => eq(pheromones.trails[i][j], Zero)

\* the edges deposit walks: consecutive pairs, and the closing pair of an open route
EdgeList(route) ==
    [k \in 1 .. (Len(route) - 1) |-> <<route[k], route[k + 1]>>]
    \o (IF route[1] # route[Len(route)] THEN << <<route[Len(route)], route[1]>> >> ELSE <<>>)

\* how often deposit adds to entry [i][j]: once per edge i-j in either
\* direction (twice for an edge from a node to itself)
Additions(route, i, j) ==
    LET e == EdgeList(route)
    IN Cardinality({k \in DOMAIN e : e[k] = <<i, j>>})
       + Cardinality({k \in DOMAIN e : e[k] = <<j, i>>})

RECURSIVE Times(_, _)
Times(x, k) == IF k = 0 THEN Zero ELSE add(x, Times(x, k - 1))

\* C5: deposit(route, length, amount) with length > 0 adds amount / length,
\* with the amount passed in the call, to [i][j] and [j][i] for every edge of
\* the route (the closing edge included) and leaves all other entries unchanged.
C5_DepositLaw ==
    (/\ last.op = "deposit"
     /\ lt(Zero, last.length)
     /\ last.pheromone_deposit # NoneVal
     /\ Len(last.route) > 0) =>
        /\ last.raised = "none"
        /\ \A i \in DOMAIN pheromones.trails : \A j \in DOMAIN pheromones.trails :
              pheromones.trails[i][j] =
                  add(last.before.trails[i][j],
                      Times(div(last.pheromone_deposit, last.length),
                            Additions(last.route, i, j)))

\* C6: a deposit whose length is zero or negative raises an error and leaves
\* the field as it was, the colony's deposits for a tour of length 0 included.
C6_NonPositiveLengthRejected ==
    (last.op = "deposit" /\ le(last.length, Zero)) =>
        /\ last.raised # "none"
        /\ pheromones = last.before

\* the weight of candidate j for the ant: pheromone(c, j)^alpha * h(j)
Weight(ant, distances, trails, j) ==
    LET c == ant.route[Len(ant.route)]
        d == distances[c][j]
    IN mul(pow(trails[c][j], ant.alpha), IF lt(Zero, d) THEN pow(inv(d), ant.beta) ELSE Zero)

RECURSIVE SumOver(_)
SumOver(f) ==
    IF DOMAIN f = {} THEN Zero
    ELSE LET x == CHOOSE x \in DOMAIN f : TRUE
         IN add(f[x], SumOver([y \in DOMAIN f \ {x} |-> f[y]]))

\* C7: when the weights of all unvisited nodes sum to zero, _choose_next_node
\* returns the unvisited node nearest to the current node, the lowest index
\* among equally near ones; no other outcome is possible.
C7_FallbackNearest ==
    last.op = "_choose_next_node" =>
        LET ant == last.before
            c == ant.route[Len(ant.route)]
            unvisited == Nodes(ant.num_nodes) \ ant.visited
            w == [j \in unvisited |-> Weight(ant, problem.distances, pheromones.trails, j)]
            node == last.outcome.node
        IN eq(SumOver(w), Zero) =>
              /\ last.outcome.raised = "none"
              /\ node \in unvisited
              /\ \A j \in unvisited :
                    /\ le(problem.distances[c][node], problem.distances[c][j])
                    /\ eq(problem.distances[c][j], problem.distances[c][node]) => node <= j

\* the fallback has picked, among several candidates, one that is not the
\* lowest-indexed candidate, and one that is the lowest of several equally near
C7_Witness ==
    /\ last.op = "_choose_next_node"
    /\ last.outcome.fallback
    /\ LET ant == last.before
           c == ant.route[Len(ant.route)]
           unvisited == Nodes(ant.num_nodes) \ ant.visited
       IN /\ Cardinality(unvisited) >= 2
          /\ \E j \in unvisited : j < last.outcome.node

C9_AntCountRejected ==
    /\ problem # NoneVal => problem.num_ants >= 1
    /\ colony # NoneVal => Len(ants) >= 1
    /\ pc.at \in {"ant", "deposit", "finalize", "driver"} => Len(ants) >= 1

\* C10: every entry of the field is >= 0 in every state; a deposit never
\* decreases an entry and an evaporation never increases one.
C10_NonNegative ==
    pheromones # NoneVal =>
        \A i \in DOMAIN pheromones.trails : \A j \in DOMAIN pheromones.trails :
            /\ le(Zero, pheromones.trails[i][j])
            /\ last.op = "deposit" =>
                  le(last.before.trails[i][j], pheromones.trails[i][j])
            /\ last.op = "evaporate" =>
                  le(pheromones.trails[i][j], last.before.trails[i][j])

\* the generations whose record the driver has appended: all those started,
\* less the one still running
Recorded ==
    IF pc.at \in {"constructed", "for", "callback", "done"} THEN opt.iteration
    ELSE opt.iteration - 1

\* C11: each generation g appends exactly one record to the driver's history,
\* improved or not, and a supplied callback is invoked exactly once per
\* generation, after the append and before the next generation starts, with
\* index g, the driver's best route and length at that moment and a history
\* of exactly g records; earlier records are never changed.
C11_RecordPerGeneration ==
    opt # NoneVal =>
        LET h == opt.iteration_history
        IN /\ Len(h) = Recorded
           /\ \A g \in 1 .. Len(h) : h[g].iteration = g
           /\ last.op = "driver" => SubSeq(h, 1, Len(h) - 1) = last.before.iteration_history
           /\ Len(callbacks) = IF ~opt.callback THEN 0
                               ELSE IF pc.at = "callback" THEN Len(h) - 1 ELSE Len(h)
           /\ \A g \in 1 .. Len(callbacks) :
                 /\ callbacks[g].iteration = g
                 /\ callbacks[g].best_route = h[g].best_route
                 /\ callbacks[g].best_length = h[g].best_length
                 /\ callbacks[g].iteration_history = SubSeq(h, 1, g)

\* two generations have called back and the second did not improve the best
C11_Witness ==
    /\ opt # NoneVal
    /\ opt.callback
    /\ pc.at = "for"
    /\ Len(callbacks) = 2
    /\ IsFinite(opt.iteration_history[1].best_length)
    /\ lt(opt.iteration_history[1].best_length, colony.best_length)

\* the ant has completed a route in the running generation / has not started
Completed(ant) == Len(ant.route) = ant.num_nodes + 1
NotStarted(ant) == ant.route = <<ant.start_node>> /\ ant.visited = {ant.start_node}

\* the operations that may directly precede an operation of run_iteration
Precedes(op) ==
    CASE op = "_prepare_iteration" -> {"optimize", "driver", "callback"}
      [] op = "find_route" -> {"_prepare_iteration", "find_route"}
      [] op = "evaporate" -> {"_prepare_iteration", "find_route"}
      [] op = "deposit" -> {"evaporate", "deposit"}
      [] op = "reset" -> {"evaporate", "deposit"}
      [] op = "_finalize_iteration" -> {"reset"}
      [] OTHER -> {"none", "Problem", "Optimization", "optimize", "_finalize_iteration",
                   "driver", "callback", "return"}

\* C12: within one run_iteration the field is not modified while the ants
\* construct their routes; it is modified only when every ant has completed
\* its route, first by the one evaporation and then by the deposits; and an
\* ant starts constructing only when the evaporation and the deposits of the
\* generation before are done and the ants have been reset.
C12_FieldStableWhileConstructing ==
    [][ colony # NoneVal =>
          /\ last'.op = "find_route" =>
                /\ pheromones' = pheromones
                /\ \A k \in DOMAIN ants :
                      IF k < last'.ant THEN Completed(ants[k]) /\ ants'[k] = ants[k]
                      ELSE NotStarted(ants[k])
          /\ pheromones' # pheromones =>
                /\ last'.op \in {"evaporate", "deposit"}
                /\ ants' = ants
                /\ \A k \in DOMAIN ants : Completed(ants[k])
          /\ last'.op \in {"evaporate", "deposit"} =>
                \A k \in DOMAIN ants : Completed(ants[k])
          /\ last.op \in Precedes(last'.op) ]_vars

\* in the second generation of a two-ant colony on three or more distinct
\* nodes the last deposit has been made
C12_Witness ==
    /\ opt # NoneVal
    /\ opt.iteration = 2
    /\ Len(ants) = 2
    /\ colony.num_nodes >= 3
    /\ last.op = "deposit"
    /\ pc.at = "deposit"
    /\ pc.k > Len(pc.top)
    /\ pheromones # last.before

\* ant j ranks before ant k: shorter tour, or equally long and lower index
RanksBefore(population, j, k) ==
    \/ lt(population[j].total_distance, population[k].total_distance)
    \/ population[j].total_distance = population[k].total_distance /\ j < k

\* the ants fewer than five others rank before
Elite(population) ==
    {k \in DOMAIN population :
        Cardinality({j \in DOMAIN population : RanksBefore(population, j, k)}) < 5}

\* what the ants of set S add to entry [i][j], each once, at rate / own length
RECURSIVE ElitePheromone(_, _, _, _, _)
ElitePheromone(population, S, rate, i, j) ==
    IF S = {} THEN Zero
    ELSE LET k == CHOOSE k \in S : TRUE
         IN add(Times(div(rate, population[k].total_distance),
                      Additions(population[k].route, i, j)),
                ElitePheromone(population, S \ {k}, rate, i, j))

\* C13: the ants that deposit in a generation are exactly the min(5, numAnts)
\* ants of shortest tour, ties going to the lower index; each deposits once,
\* depositRate / its own tour length on the edges of its own route, and no
\* other ant deposits.  (Stated on the first generation, whose field before
\* the update is the uniform initial one.)
C13_EliteDeposits ==
    (colony # NoneVal /\ pc.at = "deposit" /\ colony.current_iteration = 1) =>
        LET n == Len(ants)
            elite == Elite(ants)
            done == {pc.top[m] : m \in 1 .. (pc.k - 1)}
            base == mul(InitialTrail, add(One, neg(pheromones.evaporation_rate)))
        IN /\ Cardinality(elite) = (IF n < 5 THEN n ELSE 5)
           /\ {pc.top[m] : m \in 1 .. Len(pc.top)} = elite
           /\ Cardinality(done) = pc.k - 1
           /\ \A m \in 1 .. (Len(pc.top) - 1) : RanksBefore(ants, pc.top[m], pc.top[m + 1])
           /\ \A i \in Nodes(colony.num_nodes) : \A j \in Nodes(colony.num_nodes) :
                 pheromones.trails[i][j] =
                     add(base, ElitePheromone(ants, done, problem.pheromone_rate, i, j))

\* six ants, the first with a longer tour than the second, the sixth tied
\* with the fifth: five have deposited, the sixth has not
C13_Witness ==
    /\ colony # NoneVal
    /\ pc.at = "deposit"
    /\ Len(ants) = 6
    /\ pc.k > Len(pc.top)
    /\ last.op = "deposit"
    /\ 6 \notin Elite(ants)
    /\ ants[6].total_distance = ants[5].total_distance
    /\ lt(ants[2].total_distance, ants[1].total_distance)
    /\ pc.top[1] # 1

\* the colony's best_length when the running generation began
BestBefore ==
    IF Len(colony.iteration_history) = 0 THEN Inf
    ELSE colony.iteration_history[Len(colony.iteration_history)].best_length

\* C14: the colony's best_length never increases; once the ants of a
\* generation are through it is the minimum of its value before and their
\* route lengths; best_route and best_iteration change only with an ant that
\* makes best_length strictly smaller, and then are a copy of its route and
\* the index of the running generation.
C14_ColonyBestImproves ==
    colony # NoneVal =>
        LET h == colony.iteration_history
        IN /\ \A g \in 1 .. (Len(h) - 1) : le(h[g + 1].best_length, h[g].best_length)
           /\ le(colony.best_length, BestBefore)
           /\ colony.best_iteration <= colony.current_iteration
           /\ pc.at \in {"deposit", "finalize"} \/ (pc.at = "ant" /\ pc.k > Len(ants)) =>
                 /\ pc.at # "finalize" =>
                       \A k \in DOMAIN ants :
                           le(colony.best_length, get_length(problem.distances, ants[k].route))
                 /\ \/ colony.best_length = BestBefore
                    \/ /\ colony.best_iteration = colony.current_iteration
                       /\ colony.best_length = get_length(problem.distances, colony.best_route)
           /\ last.op = "find_route" =>
                 IF lt(colony.best_length, last.before.best_length)
                 THEN /\ colony.best_iteration = colony.current_iteration
                      /\ colony.best_route = ants[last.ant].route
                      /\ colony.best_length =
                             get_length(problem.distances, ants[last.ant].route)
                 ELSE colony = last.before

\* the second generation found a shorter tour than the first
C14_Witness ==
    /\ colony # NoneVal
    /\ last.op = "find_route"
    /\ colony.best_iteration = 2
    /\ IsFinite(last.before.best_length)
    /\ lt(colony.best_length, last.before.best_length)

C16_DriverMatchesColony ==
    (/\ opt # NoneVal
     /\ problem # NoneVal
     /\ Len(ants) >= 1
     /\ opt.iteration >= 1
     /\ pc.at \in {"for", "callback", "done"}) =>
        /\ opt.best_length = colony.best_length
        /\ opt.best_route = colony.best_route
        /\ ValidTour(opt.best_route, colony.num_nodes, opt.best_route[1])
        /\ get_length(problem.distances, opt.best_route) = opt.best_length

\* two generations of a two-ant colony are over, the second having improved
C16_Witness ==
    /\ opt # NoneVal
    /\ pc.at = "for"
    /\ opt.iteration = 2
    /\ Len(ants) = 2
    /\ colony.best_iteration = 2
    /\ opt.best_route # opt.iteration_history[1].best_route

=============================================================================
